---- MODULE Spec2Model ----
(***************************************************************************)
(* A model of pebble_predictor (src/PP.py): the static disk structure, the *)
(* initial condition and the time-marching recurrence that fills the       *)
(* Stokes number, flux and outward-mass matrices row by row.               *)
(*                                                                         *)
(* Numbers.  The code computes in IEEE double precision.  The model keeps  *)
(* the shape of that arithmetic at a narrower width: a number is a decimal *)
(* floating point value <<0, m, e>> = m * 10^e with a mantissa of at most  *)
(* four digits (every result is rounded toward zero to four digits), or    *)
(* one of the special values PosInf, NegInf, NaN.  Division by zero gives  *)
(* an infinity or NaN as numpy does, NaN propagates through arithmetic,    *)
(* np.minimum and np.maximum, and every comparison with NaN is false.  The *)
(* exponent is unbounded: overflow of the exponent range is not modelled.  *)
(* Arrays are functions on 0..n-1, so indices are the code's indices.      *)
(***************************************************************************)
EXTENDS Integers, FiniteSets, Sequences, TLC

(***************************************************************************)
(* Decimal floating point                                                  *)
(***************************************************************************)
NaN == <<1, 0, 0>>
PosInf == <<1, 1, 0>>
NegInf == <<1, -1, 0>>
Zero == <<0, 0, 0>>

Sgn(n) == IF n > 0 THEN 1 ELSE IF n < 0 THEN -1 ELSE 0
Abs(n) == IF n < 0 THEN -n ELSE n
\* integer division rounding toward zero
TDiv(n, k) == Sgn(n) * (Abs(n) \div k)

RECURSIVE Strip(_, _)
Strip(m, e) == IF m % 10 = 0 THEN Strip(TDiv(m, 10), e + 1) ELSE <<0, m, e>>

RECURSIVE Trunc(_, _)
Trunc(m, e) == IF Abs(m) >= 10^4 THEN Trunc(TDiv(m, 10), e + 1) ELSE Strip(m, e)

\* the number m * 10^e, rounded toward zero to four digits, in canonical form
Dec(m, e) == IF m = 0 THEN Zero ELSE Trunc(m, e)
Num(n) == Dec(n, 0)

RECURSIVE Up(_, _, _)
\* the same value with the mantissa scaled up to just below lim
Up(m, e, lim) == IF Abs(m) < lim \div 10 THEN Up(m * 10, e - 1, lim) ELSE <<m, e>>

IsNaN(a) == a = NaN
IsInf(a) == a[1] = 1 /\ a[2] # 0
IsFinite(a) == a[1] = 0
Sign(a) == Sgn(a[2])
FNeg(a) == <<a[1], -a[2], a[3]>>
FAbs(a) == <<a[1], Abs(a[2]), a[3]>>

FMul(a, b) ==
  IF IsNaN(a) \/ IsNaN(b) THEN NaN
  ELSE IF IsInf(a) \/ IsInf(b)
       THEN (IF Sign(a) * Sign(b) = 0 THEN NaN ELSE <<1, Sign(a) * Sign(b), 0>>)
       ELSE Dec(a[2] * b[2], a[3] + b[3])

FDiv(a, b) ==
  IF IsNaN(a) \/ IsNaN(b) THEN NaN
  ELSE IF IsInf(a)
       THEN (IF IsInf(b) THEN NaN ELSE <<1, Sign(a) * (IF Sign(b) >= 0 THEN 1 ELSE -1), 0>>)
  ELSE IF IsInf(b) THEN Zero
  ELSE IF Sign(b) = 0 THEN (IF Sign(a) = 0 THEN NaN ELSE <<1, Sign(a), 0>>)
  ELSE IF Sign(a) = 0 THEN Zero
  ELSE LET u == Up(a[2], a[3], 10^9)
       IN  Dec(TDiv(u[1], Abs(b[2])) * Sign(b), u[2] - b[3])

FAddFinite(a, b) ==
  \* a[3] >= b[3], both finite and nonzero
  LET d == a[3] - b[3]
  IN  IF d <= 5 THEN Dec(a[2] * 10^d + b[2], b[3])
      ELSE Dec(a[2] * 10^5 + (IF d - 5 <= 4 THEN TDiv(b[2], 10^(d - 5)) ELSE 0), a[3] - 5)

FAdd(a, b) ==
  IF IsNaN(a) \/ IsNaN(b) THEN NaN
  ELSE IF IsInf(a) THEN (IF IsInf(b) /\ b # a THEN NaN ELSE a)
  ELSE IF IsInf(b) THEN b
  ELSE IF Sign(a) = 0 THEN b
  ELSE IF Sign(b) = 0 THEN a
  ELSE IF a[3] >= b[3] THEN FAddFinite(a, b) ELSE FAddFinite(b, a)

FSub(a, b) == FAdd(a, FNeg(b))

\* a <= b; false when either is NaN
FLe(a, b) ==
  IF IsNaN(a) \/ IsNaN(b) THEN FALSE
  ELSE IF a = b THEN TRUE
  ELSE IF IsInf(a) THEN Sign(a) < 0
  ELSE IF IsInf(b) THEN Sign(b) > 0
  ELSE Sign(FSub(b, a)) >= 0

\* a < b; false when either is NaN
FLt(a, b) == ~IsNaN(a) /\ ~IsNaN(b) /\ ~FLe(b, a)

\* np.minimum and np.maximum: a NaN operand gives NaN
Minimum(a, b) == IF IsNaN(a) \/ IsNaN(b) THEN NaN ELSE IF FLe(a, b) THEN a ELSE b
Maximum(a, b) == IF IsNaN(a) \/ IsNaN(b) THEN NaN ELSE IF FLe(b, a) THEN a ELSE b

RECURSIVE ISqrt(_, _, _)
\* the integer square root of n, given lo*lo <= n < hi*hi
ISqrt(n, lo, hi) ==
  IF hi - lo <= 1 THEN lo
  ELSE LET mid == (lo + hi) \div 2
       IN  IF mid * mid <= n THEN ISqrt(n, mid, hi) ELSE ISqrt(n, lo, mid)

RECURSIVE ICbrt(_, _, _)
\* the integer cube root of n, given lo^3 <= n < hi^3
ICbrt(n, lo, hi) ==
  IF hi - lo <= 1 THEN lo
  ELSE LET mid == (lo + hi) \div 2
       IN  IF mid * mid * mid <= n THEN ICbrt(n, mid, hi) ELSE ICbrt(n, lo, mid)

\* np.sqrt: NaN for a negative argument
Sqrt(a) ==
  IF IsNaN(a) \/ Sign(a) < 0 THEN NaN
  ELSE IF IsInf(a) \/ Sign(a) = 0 THEN a
  ELSE LET u == Up(a[2], a[3], 10^8)
           v == IF u[2] % 2 = 0 THEN u ELSE <<u[1] * 10, u[2] - 1>>
       IN  Dec(ISqrt(v[1], 0, 31623), v[2] \div 2)

RECURSIVE Mult3(_, _)
Mult3(m, e) == IF e % 3 = 0 THEN <<m, e>> ELSE Mult3(m * 10, e - 1)

\* a ** 0.3333 (the cube root, to the model's precision): NaN for a negative argument
Pow03333(a) ==
  IF IsNaN(a) \/ Sign(a) < 0 THEN NaN
  ELSE IF IsInf(a) \/ Sign(a) = 0 THEN a
  ELSE LET u == Up(a[2], a[3], 10^7)
           v == Mult3(u[1], u[2])
       IN  Dec(ICbrt(v[1], 0, 1001), v[2] \div 3)

\* a ** (-0.3333)
PowNeg03333(a) == FDiv(Num(1), Pow03333(a))

\* np.exp, by its series to second order: 1 + a + a^2/2 (1 at 0, above 1 for a > 0)
Exp(a) ==
  IF IsNaN(a) THEN NaN
  ELSE IF a = NegInf THEN Zero
  ELSE FAdd(FAdd(Num(1), a), FDiv(FMul(a, a), Num(2)))

Size(a) == Cardinality(DOMAIN a)

(***************************************************************************)
(* Constants of the code (lines 32-39).  The physical constants are taken  *)
(* in the model's unit system instead of cgs: k_b/(2.3*m_p) = 1, Grav = 1  *)
(* and au = 1, so that the disk quantities stay within a few digits.       *)
(***************************************************************************)
Pi == Dec(3142, -3)
k_b == Num(23)
m_p == Num(10)
Grav == Num(1)
au == Num(1)
a0 == Dec(1, -4)
fff == Num(30)

(***************************************************************************)
(* Static disk structure (lines 40-55, 63-64)                              *)
(***************************************************************************)
\* interfaces with the outer one extrapolated from the wrong side: 1.5 and 0.5
\* exchanged in line 47
CellInterfacesSwapped(rgrid) ==
  LET N == Size(rgrid)
  IN  [k \in 0..N |->
         IF k = 0 THEN FSub(FMul(Dec(15, -1), rgrid[0]), FMul(Dec(5, -1), rgrid[1]))
         ELSE IF k = N
              THEN FSub(FMul(Dec(15, -1), rgrid[N - 2]), FMul(Dec(5, -1), rgrid[N - 1]))
              ELSE FMul(Dec(5, -1), FAdd(rgrid[k], rgrid[k - 1]))]

\* rInt, lines 45-48: np.size(rgrid)+1 interfaces
CellInterfaces(rgrid) ==
  LET N == Size(rgrid)
  IN  [k \in 0..N |->
         IF k = 0 THEN FSub(FMul(Dec(15, -1), rgrid[0]), FMul(Dec(5, -1), rgrid[1]))
         ELSE IF k = N
              THEN FSub(FMul(Dec(15, -1), rgrid[N - 1]), FMul(Dec(5, -1), rgrid[N - 2]))
              ELSE FMul(Dec(5, -1), FAdd(rgrid[k], rgrid[k - 1]))]

\* dr, line 49
CellWidths(rInt) == [k \in 0..(Size(rInt) - 2) |-> FSub(rInt[k + 1], rInt[k])]

\* np.interp(x, xp, fp) for increasing xp: fp's last value right of the nodes,
\* its first value left of them, the chord between the bracketing nodes inside
Interp(x, xp, fp) ==
  LET n == Size(xp)
  IN  IF IsNaN(x) THEN NaN
      ELSE IF FLt(xp[n - 1], x) THEN fp[n - 1]
      ELSE IF FLt(x, xp[0]) THEN fp[0]
      ELSE IF x = xp[n - 1] THEN fp[n - 1]
      ELSE LET j == CHOOSE i \in 0..(n - 2) : FLe(xp[i], x) /\ FLt(x, xp[i + 1])
               slope == FDiv(FSub(fp[j + 1], fp[j]), FSub(xp[j + 1], xp[j]))
           IN  FAdd(FMul(slope, FSub(x, xp[j])), fp[j])

\* lines 40-55 and 63-64: every radius-only field, from the parameters
StaticFields(p) ==
  LET N == Size(p.rgrid)
      R == 0..(N - 1)
      cs == [i \in R |-> Sqrt(FDiv(FMul(k_b, p.T[i]), FMul(Dec(23, -1), m_p)))]
      OmegaK == [i \in R |->
                   Sqrt(FDiv(FMul(Grav, p.Mstar),
                             FMul(FMul(p.rgrid[i], p.rgrid[i]), p.rgrid[i])))]
      sqrt2pi == Sqrt(FMul(Num(2), Pi))
      rhog == [i \in R |-> FDiv(FMul(p.SigmaGas[i], OmegaK[i]), FMul(sqrt2pi, cs[i]))]
      pg == [i \in R |-> FMul(rhog[i], FMul(cs[i], cs[i]))]
      rInt == CellInterfaces(p.rgrid)
      dr == CellWidths(rInt)
      pgInt == [k \in 0..N |-> Interp(rInt[k], p.rgrid, pg)]
      eta == [i \in R |->
                FDiv(FDiv(FSub(pgInt[i + 1], pgInt[i]), dr[i]),
                     FMul(FMul(FMul(Num(2), rhog[i]), FMul(OmegaK[i], OmegaK[i])),
                          p.rgrid[i]))]
      stfrag == [i \in R |->
                   FDiv(FMul(Dec(37, -2), FMul(p.vfrag, p.vfrag)),
                        FMul(FMul(Num(3), p.alpha), FMul(cs[i], cs[i])))]
      stdf == [i \in R |->
                 FDiv(FMul(Dec(37, -2), p.vfrag),
                      FMul(FMul(FMul(Num(2), FAbs(eta[i])), OmegaK[i]), p.rgrid[i]))]
      st0 == [i \in R |->
                FDiv(FMul(FMul(FMul(Dec(5, -1), Pi), a0), p.rhop), p.SigmaGas[i])]
      Z0 == [i \in R |-> FDiv(p.SigmaDust[i], p.SigmaGas[i])]
      tgrowth == [i \in R |->
                    FDiv(Num(1),
                         FMul(FMul(FMul(Pow03333(FDiv(p.alpha, Dec(1, -4))), Z0[i]),
                                   OmegaK[i]),
                              PowNeg03333(FDiv(p.rgrid[i], au))))]
  IN  [cs |-> cs, OmegaK |-> OmegaK, rhog |-> rhog, pg |-> pg, rInt |-> rInt,
       dr |-> dr, pgInt |-> pgInt, eta |-> eta, stfrag |-> stfrag, stdf |-> stdf,
       st0 |-> st0, Z0 |-> Z0, tgrowth |-> tgrowth]

\* np.zeros((np.size(tgrid), np.size(rgrid))), lines 58-60
Zeros(p) == [t \in 0..(Size(p.tgrid) - 1) |-> [i \in 0..(Size(p.rgrid) - 1) |-> Zero]]

(***************************************************************************)
(* Initial condition (lines 65-69)                                         *)
(***************************************************************************)
RECURSIVE SumFrom(_, _, _, _)
\* np.sum of term[k..n-1] on top of acc, added in index order
SumFrom(term, k, n, acc) ==
  IF k >= n THEN acc ELSE SumFrom(term, k + 1, n, FAdd(acc, term[k]))

\* the dust mass of the whole disk at every radius: the slices [ir:] of line 66
\* left out
InitialMassWholeDisk(p, s) ==
  LET N == Size(p.rgrid)
      term == [k \in 0..(N - 1) |->
                 FMul(FMul(FMul(FMul(Num(2), Pi), p.rgrid[k]), s.dr[k]), p.SigmaDust[k])]
  IN  [ir \in 0..(N - 1) |-> SumFrom(term, 0, N, Zero)]

\* massout[0,ir], line 66: the dust mass of the cells ir, ir+1, ...
InitialMass(p, s) ==
  LET N == Size(p.rgrid)
      term == [k \in 0..(N - 1) |->
                 FMul(FMul(FMul(FMul(Num(2), Pi), p.rgrid[k]), s.dr[k]), p.SigmaDust[k])]
  IN  [ir \in 0..(N - 1) |-> SumFrom(term, ir, N, Zero)]

\* 2.*abs(eta)*OmegaK*rgrid*st/(1.+st**2.), lines 68 and 80
DriftVelocity(p, s, stv, i) ==
  FDiv(FMul(FMul(FMul(FMul(Num(2), FAbs(s.eta[i])), s.OmegaK[i]), p.rgrid[i]), stv),
       FAdd(Num(1), FMul(stv, stv)))

\* flux[0,:], line 69
InitialFlux(p, s, st0row) ==
  [i \in DOMAIN p.rgrid |->
     FMul(FMul(FMul(FMul(Num(2), Pi), p.rgrid[i]), DriftVelocity(p, s, st0row[i], i)),
          p.SigmaDust[i])]

(***************************************************************************)
(* One pass of the time loop (lines 73-82), for it >= 1                    *)
(***************************************************************************)
\* line 73 with the flux read from row it instead of row it-1
NewMassoutCurrentFlux(p, massoutM, fluxM, t) ==
  [i \in DOMAIN p.rgrid |->
     FSub(massoutM[t - 1][i],
          FMul(fluxM[t][i], FSub(p.tgrid[t], p.tgrid[t - 1])))]

\* line 73, read from rows it-1 of massout and flux
NewMassout(p, massoutM, fluxM, t) ==
  [i \in DOMAIN p.rgrid |->
     FSub(massoutM[t - 1][i],
          FMul(fluxM[t - 1][i], FSub(p.tgrid[t], p.tgrid[t - 1])))]

\* massout[it,:]/massout[0,:], lines 74 and 82
MassFraction(massoutM, t, i) == FDiv(massoutM[t][i], massoutM[0][i])

\* line 75
Stini(p, s, t, i) == FMul(s.st0[i], Exp(FDiv(p.tgrid[t], s.tgrowth[i])))

\* lines 74 and 76
Stdrift(s, massoutM, t, i) ==
  FDiv(FDiv(FMul(s.Z0[i], MassFraction(massoutM, t, i)), FAbs(s.eta[i])), fff)

\* lines 77-78 without the floor of line 79
ClampChainNoFloor(stfrag, stdf, stini, stdrift, st0) ==
  Minimum(Minimum(Minimum(stfrag, stdf), stini), stdrift)

\* lines 77-79 without the growth limit stini in line 77
ClampChainNoGrowth(stfrag, stdf, stini, stdrift, st0) ==
  Maximum(Minimum(Minimum(stfrag, stdf), stdrift), st0)

\* lines 77-79 with the floor of line 79 applied before the drift limit of line 78
ClampChainFloorFirst(stfrag, stdf, stini, stdrift, st0) ==
  Minimum(Maximum(Minimum(Minimum(stfrag, stdf), stini), st0), stdrift)

\* lines 77-79: growth vs fragmentation, then vs radial drift, then the monomer floor
ClampChain(stfrag, stdf, stini, stdrift, st0) ==
  Maximum(Minimum(Minimum(Minimum(stfrag, stdf), stini), stdrift), st0)

\* st[it,:], lines 74-79, given massout with row it already written
NewSt(p, s, massoutM, t) ==
  [i \in DOMAIN p.rgrid |->
     ClampChain(s.stfrag[i], s.stdf[i], Stini(p, s, t, i), Stdrift(s, massoutM, t, i),
                s.st0[i])]

\* flux[it,:], lines 80-82, given massout and st with row it already written
NewFlux(p, s, massoutM, stM, t) ==
  [i \in DOMAIN p.rgrid |->
     LET vv == Minimum(DriftVelocity(p, s, stM[t][i], i),
                       FDiv(FDiv(p.rgrid[i], s.tgrowth[i]), fff))
     IN  FMul(FMul(FMul(FMul(FMul(Num(2), Pi), p.rgrid[i]), vv), p.SigmaDust[i]),
              MassFraction(massoutM, t, i))]

(***************************************************************************)
(* The inputs (lines 22-30)                                                *)
(***************************************************************************)
\* the largest number of radii and of time rows the inputs are drawn with
MaxRadii == 3
MaxRows == 3

Flat(N, base) == [i \in 0..(N - 1) |-> base]
Fall(N, base) == [i \in 0..(N - 1) |-> FDiv(base, Num(i + 1))]
Profiles(N, base) == {Flat(N, base), Fall(N, base)}

\* evenly and logarithmically spaced radii
Radii(N) == {[i \in 0..(N - 1) |-> Num(i + 1)], [i \in 0..(N - 1) |-> Num(2^i)]}

\* evenly spaced times, from 0 or later, with short and with long steps
TimeGrids ==
  {[k \in 0..(MaxRows - 1) |-> Num(g[1] + k * g[2])] :
     g \in {<<0, 1>>, <<0, 10>>, <<0, 1000>>, <<5, 10>>}}

InputsOfSize(N) ==
  [rgrid : Radii(N), tgrid : TimeGrids, Mstar : {Num(1)},
   SigmaGas : Profiles(N, Num(1)), SigmaDust : Profiles(N, Dec(1, -1)),
   T : Profiles(N, Dec(1111, -4)),
   alpha : {Dec(1, -4), Dec(8, -4)}, vfrag : {Dec(1, -2), Dec(1, -1)},
   rhop : {Num(64), Num(1000)}]

ValidInputs == UNION {InputsOfSize(N) : N \in 2..MaxRadii}

\* a[i] < a[i+1] throughout
StrictlyIncreasing(a) == \A i \in 0..(Size(a) - 2) : FLt(a[i], a[i + 1])
Positive(a) == \A i \in DOMAIN a : FLt(Zero, a[i])

\* what section 7 of the specification asks of an input
ValidInput(p) ==
  /\ Size(p.rgrid) >= 2
  /\ Size(p.tgrid) >= 1
  /\ DOMAIN p.SigmaGas = DOMAIN p.rgrid
  /\ DOMAIN p.SigmaDust = DOMAIN p.rgrid
  /\ DOMAIN p.T = DOMAIN p.rgrid
  /\ StrictlyIncreasing(p.rgrid)
  /\ StrictlyIncreasing(p.tgrid)
  /\ Positive(p.rgrid)
  /\ Positive(p.SigmaGas)
  /\ Positive(p.SigmaDust)
  /\ Positive(p.T)
  /\ FLt(Zero, p.alpha)

\* inputs a caller can pass that section 7 rules out: one defect each
Defects(p) ==
  LET N == Size(p.rgrid)
      M == Size(p.tgrid)
  IN  { [p EXCEPT !.tgrid = [k \in 0..(M - 1) |-> Num(5)]],
        [p EXCEPT !.tgrid = [k \in 0..(M - 1) |-> Num(10 * (M - k))]],
        [p EXCEPT !.SigmaGas[0] = Zero],
        [p EXCEPT !.SigmaDust[N - 1] = Zero],
        [p EXCEPT !.SigmaDust[0] = FNeg(@)],
        [p EXCEPT !.T[N - 1] = Zero],
        [p EXCEPT !.T[0] = FNeg(@)],
        [p EXCEPT !.alpha = Zero] }

BaseInputs ==
  {p \in ValidInputs : p.alpha = Dec(1, -4) /\ p.rhop = Num(64) /\ p.tgrid[0] = Num(0)
                     /\ p.tgrid[1] = Num(10)}

AnyInputs == BaseInputs \cup UNION {Defects(p) : p \in BaseInputs}

(***************************************************************************)
(* The program                                                             *)
(***************************************************************************)
VARIABLES
  pars,      \* the keyword arguments
  pc,        \* "static", "initial", "loop" or "done"
  it,        \* the loop index of line 72
  sf,        \* the radius-only fields
  st,        \* the matrices of lines 58-60
  flux,
  massout,
  pars2,     \* a second call that differs from the first in SigmaDust at one radius
  sf2,
  st2,
  flux2,
  massout2

vars == <<pars, pc, it, sf, st, flux, massout, pars2, sf2, st2, flux2, massout2>>

\* the second call's arguments: SigmaDust doubled at radius j
OtherDust(p, j) == [p EXCEPT !.SigmaDust[j] = FMul(Num(2), @)]

InitFrom(inputs) ==
  /\ pars \in inputs
  /\ \E j \in DOMAIN pars.rgrid : pars2 = OtherDust(pars, j)
  /\ pc = "static"
  /\ it = 0
  /\ sf = << >> /\ st = << >> /\ flux = << >> /\ massout = << >>
  /\ sf2 = << >> /\ st2 = << >> /\ flux2 = << >> /\ massout2 = << >>

Init == InitFrom(ValidInputs)

\* lines 32-64: the radius-only fields and the zeroed matrices
StaticStructure ==
  /\ pc = "static"
  /\ sf' = StaticFields(pars)
  /\ st' = Zeros(pars) /\ flux' = Zeros(pars) /\ massout' = Zeros(pars)
  /\ sf2' = StaticFields(pars2)
  /\ st2' = Zeros(pars2) /\ flux2' = Zeros(pars2) /\ massout2' = Zeros(pars2)
  /\ pc' = "initial"
  /\ UNCHANGED <<pars, pars2, it>>

\* row 0 of st held below the fragmentation limit
InitialStClamped(s) == [i \in DOMAIN s.st0 |-> Minimum(s.st0[i], s.stfrag[i])]

\* row 0 of st, line 67
InitialSt(s) == s.st0

\* lines 65-69: row 0 of the three matrices
InitialCondition ==
  /\ pc = "initial"
  /\ massout' = [massout EXCEPT ![0] = InitialMass(pars, sf)]
  /\ st' = [st EXCEPT ![0] = InitialSt(sf)]
  /\ flux' = [flux EXCEPT ![0] = InitialFlux(pars, sf, InitialSt(sf))]
  /\ massout2' = [massout2 EXCEPT ![0] = InitialMass(pars2, sf2)]
  /\ st2' = [st2 EXCEPT ![0] = InitialSt(sf2)]
  /\ flux2' = [flux2 EXCEPT ![0] = InitialFlux(pars2, sf2, InitialSt(sf2))]
  /\ pc' = "loop"
  /\ it' = 1
  /\ UNCHANGED <<pars, pars2, sf, sf2>>

\* the matrices after the pass it = t of the loop body, lines 73-82
AfterPass(p, s, m, t) ==
  LET massout1 == [m.massout EXCEPT ![t] = NewMassout(p, m.massout, m.flux, t)]
      st1 == [m.st EXCEPT ![t] = NewSt(p, s, massout1, t)]
      flux1 == [m.flux EXCEPT ![t] = NewFlux(p, s, massout1, st1, t)]
  IN  [st |-> st1, flux |-> flux1, massout |-> massout1]

\* one pass of the loop of line 72
TimeStep ==
  /\ pc = "loop"
  /\ it < Size(pars.tgrid)
  /\ LET a == AfterPass(pars, sf, [st |-> st, flux |-> flux, massout |-> massout], it)
         b == AfterPass(pars2, sf2, [st |-> st2, flux |-> flux2, massout |-> massout2], it)
     IN  /\ st' = a.st /\ flux' = a.flux /\ massout' = a.massout
         /\ st2' = b.st /\ flux2' = b.flux /\ massout2' = b.massout
  /\ it' = it + 1
  /\ UNCHANGED <<pars, pars2, sf, sf2, pc>>

\* line 83
Return ==
  /\ pc = "loop"
  /\ it >= Size(pars.tgrid)
  /\ pc' = "done"
  /\ UNCHANGED <<pars, pars2, it, sf, sf2, st, flux, massout, st2, flux2, massout2>>

Next == StaticStructure \/ InitialCondition \/ TimeStep \/ Return

Spec == Init /\ [][Next]_vars

\* the same program called with any input, valid or not
InitAny == InitFrom(AnyInputs)
SpecAny == InitAny /\ [][Next]_vars

(***************************************************************************)
(* Properties                                                              *)
(***************************************************************************)
Radius == DOMAIN pars.rgrid
\* the rows written so far
Computed == IF pc \in {"loop", "done"} THEN 0..(it - 1) ELSE {}
\* the rows the loop has written
Stepped == Computed \ {0}

\* min(stfrag, stdf, stini) of line 77 at row t, radius i
Ceiling(t, i) == Minimum(Minimum(sf.stfrag[i], sf.stdf[i]), Stini(pars, sf, t, i))

\* C1: at every computed row and radius the Stokes number is at least the
\* monomer Stokes number st0, whatever the limits are.
C1_MonomerFloor ==
  \A t \in Computed : \A i \in Radius : FLe(sf.st0[i], st[t][i])

\* a row of the loop where the drift-supply limit is zero or negative
C1_Witness ==
  \E t \in Stepped : \E i \in Radius :
    /\ FLe(Stdrift(sf, massout, t, i), Zero)
    /\ st[t][i] = sf.st0[i]

\* C2 as stated: at every row of the loop the stored Stokes number is at most
\* min(stfrag, stdf, stini).
C2_RegimeCeiling ==
  \A t \in Stepped : \A i \in Radius : FLe(st[t][i], Ceiling(t, i))

\* C2 as amended: at every row of the loop the stored Stokes number is at most
\* max(min(stfrag, stdf, stini), st0); it exceeds the ceiling only where the
\* monomer value does, and is then the monomer value.
C2_CeilingOrMonomer ==
  \A t \in Stepped : \A i \in Radius :
    /\ FLe(st[t][i], Maximum(Ceiling(t, i), sf.st0[i]))
    /\ FLt(Ceiling(t, i), st[t][i]) => st[t][i] = sf.st0[i]

\* a row where the monomer value lies above a fragmentation limit, and one
\* where the ceiling is what is stored
C2_Witness ==
  /\ \E t \in Stepped : \E i \in Radius :
       /\ FLt(Minimum(sf.stfrag[i], sf.stdf[i]), sf.st0[i])
       /\ FLt(Ceiling(t, i), st[t][i])
       /\ st[t][i] = sf.st0[i]
  /\ \E t \in Stepped : \E i \in Radius :
       FLt(sf.st0[i], st[t][i]) /\ st[t][i] = Ceiling(t, i)

\* C3 as stated: massout[it,ir] <= massout[it-1,ir] at every row of the loop.
C3_MassNonIncreasing ==
  \A t \in Stepped : \A i \in Radius : FLe(massout[t][i], massout[t - 1][i])

\* C4 as stated: every entry of flux written so far is >= 0.
C4_FluxNonNegative ==
  \A t \in Computed : \A i \in Radius : FLe(Zero, flux[t][i])

\* C5 as stated: for an invalid input no row is ever computed (the call fails
\* before the initial condition).
C5_FailFast == ~ValidInput(pars) => pc \in {"static", "initial"}

\* the radii where the two calls were given the same SigmaDust
SameDust == {i \in Radius : pars2.SigmaDust[i] = pars.SigmaDust[i]}
ChangedDust == Radius \ SameDust

\* C6 as stated: at every row of the loop, st and flux at a radius are the same
\* in two calls that differ only in SigmaDust at another radius.
C6_Independence ==
  \A t \in Stepped : \A i \in SameDust :
    st2[t][i] = st[t][i] /\ flux2[t][i] = flux[t][i]

\* C6 as amended: they are the same when SigmaDust was changed at a smaller
\* radius index only.
C6_InwardIndependence ==
  \A t \in Stepped : \A i \in Radius :
    (\A j \in ChangedDust : j < i) =>
      st2[t][i] = st[t][i] /\ flux2[t][i] = flux[t][i]

\* both calls returned, SigmaDust was changed inside of some radius, and the
\* change did alter the result elsewhere
C6_Witness ==
  /\ pc = "done"
  /\ \E i \in Radius : \A j \in ChangedDust : j < i
  /\ \E t \in Stepped : flux2[t] # flux[t]

\* C7: N+1 interfaces; the two outer ones extrapolated, the inner ones midpoints;
\* they increase strictly and every cell width is positive; the grid 1, 2, 4
\* gives 0.5, 1.5, 3, 5.
C7_CellInterfaces ==
  pc # "static" =>
    LET N == Size(pars.rgrid)
        r == pars.rgrid
    IN  /\ DOMAIN sf.rInt = 0..N
        /\ sf.rInt[0] = FSub(FMul(Dec(15, -1), r[0]), FMul(Dec(5, -1), r[1]))
        /\ sf.rInt[N] = FSub(FMul(Dec(15, -1), r[N - 1]), FMul(Dec(5, -1), r[N - 2]))
        /\ \A k \in 1..(N - 1) : sf.rInt[k] = FMul(Dec(5, -1), FAdd(r[k - 1], r[k]))
        /\ StrictlyIncreasing(sf.rInt)
        /\ DOMAIN sf.dr = 0..(N - 1)
        /\ \A k \in 0..(N - 1) :
             sf.dr[k] = FSub(sf.rInt[k + 1], sf.rInt[k]) /\ FLt(Zero, sf.dr[k])
        /\ (N = 3 /\ r[0] = Num(1) /\ r[1] = Num(2) /\ r[2] = Num(4)) =>
             sf.rInt = (0 :> Dec(5, -1) @@ 1 :> Dec(15, -1) @@ 2 :> Num(3) @@ 3 :> Num(5))

C7_Witness ==
  /\ pc # "static"
  /\ Size(pars.rgrid) = 3
  /\ pars.rgrid[2] = Num(4)
  /\ sf.rInt[3] = Num(5)

\* C8: row 0 of st is the monomer Stokes number 0.5*pi*a0*rhop/SigmaGas at every
\* radius, whatever the first time, the limits and the mass budget are.
C8_InitialRow ==
  \A i \in Radius :
    0 \in Computed =>
      /\ st[0][i] = sf.st0[i]
      /\ st[0][i] = FDiv(FMul(FMul(FMul(Dec(5, -1), Pi), a0), pars.rhop),
                         pars.SigmaGas[i])

\* row 0 has been written, the loop has run, and the loop's clamps would have
\* stored something else in row 0: the time grid starts after 0 and the clamp
\* chain evaluated at row 0 lies above the monomer value
C8_Witness ==
  /\ pc = "done"
  /\ \E i \in Radius :
       /\ FLt(Zero, pars.tgrid[0])
       /\ FLt(sf.st0[i], Minimum(Ceiling(0, i), Stdrift(sf, massout, 0, i)))
       /\ st[0][i] = sf.st0[i]

\* the chain of lines 77-79 with the floor applied before the drift-supply limit
Reordered(t, i) ==
  Minimum(Maximum(Ceiling(t, i), sf.st0[i]), Stdrift(sf, massout, t, i))

\* C9: at every row of the loop st is max(min(ceiling, stdrift), st0); where
\* stdrift < st0 it is st0; and it differs from the reordered chain
\* min(max(ceiling, st0), stdrift) exactly where stdrift < st0.
C9_ClampOrder ==
  \A t \in Stepped : \A i \in Radius :
    LET stdrift == Stdrift(sf, massout, t, i)
    IN  /\ st[t][i] = Maximum(Minimum(Ceiling(t, i), stdrift), sf.st0[i])
        /\ FLt(stdrift, sf.st0[i]) => st[t][i] = sf.st0[i]
        /\ (st[t][i] # Reordered(t, i)) <=> FLt(stdrift, sf.st0[i])

\* rows where the supply limit lies below the monomer value, between it and the
\* ceiling, and above the ceiling
C9_Witness ==
  /\ \E t \in Stepped : \E i \in Radius :
       FLt(Stdrift(sf, massout, t, i), sf.st0[i]) /\ st[t][i] # Reordered(t, i)
  /\ \E t \in Stepped : \E i \in Radius :
       /\ FLt(sf.st0[i], Stdrift(sf, massout, t, i))
       /\ FLt(Stdrift(sf, massout, t, i), Ceiling(t, i))
  /\ \E t \in Stepped : \E i \in Radius :
       /\ FLt(sf.st0[i], Ceiling(t, i))
       /\ FLt(Ceiling(t, i), Stdrift(sf, massout, t, i))

\* the three matrices with row k of one of them replaced by other values
Matrices == [st |-> st, flux |-> flux, massout |-> massout]
Disturbed(field, k) ==
  [Matrices EXCEPT ![field][k] = [i \in Radius |-> FAdd(@[i], Num(1))]]
\* row t as the loop body computes it from the matrices m
RowOf(m, t) == [st |-> m.st[t], flux |-> m.flux[t], massout |-> m.massout[t]]
Recomputed(m, t) == RowOf(AfterPass(pars, sf, m, t), t)

\* C10 as stated: the row the loop has just written is what the loop body gives
\* from row it-1 alone: other values in any other row of st, flux or massout
\* leave it unchanged.
C10_PreviousRowOnly ==
  (pc = "loop" /\ it >= 2) =>
    \A field \in {"st", "flux", "massout"} :
      \A k \in (DOMAIN pars.tgrid) \ {it - 2} :
        Recomputed(Disturbed(field, k), it - 1) = RowOf(Matrices, it - 1)

\* C10 as amended: the row just written is what the loop body gives from row
\* it-1 of flux and massout and row 0 of massout: other values in any row of st,
\* in any row of flux but it-1, and in any row of massout but it-1 and 0, leave
\* it unchanged.
C10_PreviousRowAndInitialMass ==
  (pc = "loop" /\ it >= 2) =>
    /\ Recomputed(Matrices, it - 1) = RowOf(Matrices, it - 1)
    /\ \A k \in DOMAIN pars.tgrid :
         Recomputed(Disturbed("st", k), it - 1) = RowOf(Matrices, it - 1)
    /\ \A k \in (DOMAIN pars.tgrid) \ {it - 2} :
         Recomputed(Disturbed("flux", k), it - 1) = RowOf(Matrices, it - 1)
    /\ \A k \in (DOMAIN pars.tgrid) \ {it - 2, 0} :
         Recomputed(Disturbed("massout", k), it - 1) = RowOf(Matrices, it - 1)

\* a row beyond the first of the loop has been written, and row 0 of massout and
\* row it-1 of flux do decide it
C10_Witness ==
  /\ pc = "loop"
  /\ it >= 3
  /\ Recomputed(Disturbed("massout", 0), it - 1) # RowOf(Matrices, it - 1)
  /\ Recomputed(Disturbed("flux", it - 2), it - 1) # RowOf(Matrices, it - 1)
====
